---- MODULE Spec2Model ----
(***************************************************************************)
(* Financial-Snapshot-GPT-Analyzer: the Flask handler index() of app.py    *)
(* and the functions it calls (parse_float, build_user_profile,            *)
(* fetch_market_snapshot, summarize_for_model, call_gpt).                  *)
(*                                                                         *)
(* Conventions of the model                                                *)
(*  - A Python str that the code inspects character by character (a form   *)
(*    value) is a sequence of one-character strings; a str that the code   *)
(*    only passes on (a message, a label) is a TLA+ string.                *)
(*  - Python's None is None; a value that may be None is None or Some(v).  *)
(*  - A Python float is a record [k, n, d]: k = "fin" is the rational n/d  *)
(*    in lowest terms with d > 0, k = "inf" is +inf (n = 1) or -inf        *)
(*    (n = -1), k = "nan" is NaN.  Arithmetic is exact on the finite       *)
(*    values (binary rounding is not modelled) and follows IEEE 754 on     *)
(*    the others.  The int 0 that max(x, 0) may return is the float 0.     *)
(***************************************************************************)
EXTENDS Integers, Sequences, FiniteSets, TLC

VARIABLES
    api_key,        \* os.getenv("OPENAI_API_KEY"): None or Some(string)
    pc,             \* position of the running request in index()
    method,         \* request.method
    form,           \* request.form: field name -> None or Some(chars)
    form_values,    \* local of index()
    profile,        \* local of index(): None or Some(profile record)
    market_data,    \* local of index(): None or Some(snapshot)
    summary,        \* local of index(): None or Some(lines)
    gpt_text,       \* local of index(): None or Some(string)
    gpt_error,      \* local of index(): None or Some(string)
    flashes,        \* flash() calls of this request: <<message, category>>
    snapshot,       \* local of fetch_market_snapshot(): <<symbol, record>> in insertion order
    fetch_i,        \* index into MARKET_SYMBOLS of the running loop
    downloads,      \* yf.download calls of this request: <<symbol, outcome>>
    clients,        \* OpenAI(...) constructions of this request
    creates,        \* client.responses.create calls of this request
    logged,         \* app.logger.exception calls of this request
    uncaught,       \* None, or Some(exception type) that left index()
    rendered,       \* None, or Some(the arguments render_template got)
    result          \* build_user_profile applied on its own: None or its outcome

vars == <<api_key, pc, method, form, form_values, profile, market_data, summary,
          gpt_text, gpt_error, flashes, snapshot, fetch_i, downloads, clients,
          creates, logged, uncaught, rendered, result>>

None == [some |-> FALSE]
Some(v) == [some |-> TRUE, v |-> v]

(***************************************************************************)
(* Python floats                                                           *)
(***************************************************************************)
Abs(n) == IF n < 0 THEN -n ELSE n

Sign(n) == IF n < 0 THEN -1 ELSE IF n > 0 THEN 1 ELSE 0

RECURSIVE GCD(_, _)
GCD(a, b) == IF b = 0 THEN a ELSE GCD(b, a % b)

Fin(n, d) ==
    LET s == IF d < 0 THEN -1 ELSE 1
        g == GCD(Abs(n), Abs(d))
    IN  [k |-> "fin", n |-> (s * n) \div g, d |-> Abs(d) \div g]

Inf(s) == [k |-> "inf", n |-> s, d |-> 0]
NaN == [k |-> "nan", n |-> 0, d |-> 0]
FInt(n) == Fin(n, 1)

FNeg(a) == [a EXCEPT !.n = -a.n]

FAdd(a, b) ==
    IF a.k = "nan" \/ b.k = "nan" THEN NaN
    ELSE IF a.k = "inf" /\ b.k = "inf" THEN (IF a.n = b.n THEN a ELSE NaN)
    ELSE IF a.k = "inf" THEN a
    ELSE IF b.k = "inf" THEN b
    ELSE Fin(a.n * b.d + b.n * a.d, a.d * b.d)

FSub(a, b) == FAdd(a, FNeg(b))

FMul(a, b) ==
    IF a.k = "nan" \/ b.k = "nan" THEN NaN
    ELSE IF a.k = "inf" \/ b.k = "inf"
         THEN (IF a.n = 0 \/ b.n = 0 THEN NaN ELSE Inf(Sign(a.n) * Sign(b.n)))
    ELSE Fin(a.n * b.n, a.d * b.d)

\* a / b for b # 0 (Python raises ZeroDivisionError for b = 0; the one
\* division of the code is guarded by income > 0).
FDiv(a, b) ==
    IF a.k = "nan" \/ b.k = "nan" THEN NaN
    ELSE IF a.k = "inf" /\ b.k = "inf" THEN NaN
    ELSE IF a.k = "inf" THEN Inf(Sign(a.n) * Sign(b.n))
    ELSE IF b.k = "inf" THEN FInt(0)
    ELSE Fin(a.n * b.d, a.d * b.n)

\* a > b
FGt(a, b) ==
    IF a.k = "nan" \/ b.k = "nan" THEN FALSE
    ELSE IF a.k = "inf" THEN a.n = 1 /\ ~(b.k = "inf" /\ b.n = 1)
    ELSE IF b.k = "inf" THEN b.n = -1
    ELSE a.n * b.d > b.n * a.d

\* max(a, b) of Python: b when b > a, otherwise a
PyMax(a, b) == IF FGt(b, a) THEN b ELSE a

\* int(x) of a finite float: truncation toward zero
Trunc(x) == IF x.n >= 0 THEN x.n \div x.d ELSE -((-x.n) \div x.d)

(***************************************************************************)
(* Python strings                                                          *)
(***************************************************************************)
Digits == <<"0", "1", "2", "3", "4", "5", "6", "7", "8", "9">>
UpperChars == <<"A", "B", "C", "D", "E", "F", "G", "H", "I", "J", "K", "L", "M",
                "N", "O", "P", "Q", "R", "S", "T", "U", "V", "W", "X", "Y", "Z">>
LowerChars == <<"a", "b", "c", "d", "e", "f", "g", "h", "i", "j", "k", "l", "m",
                "n", "o", "p", "q", "r", "s", "t", "u", "v", "w", "x", "y", "z">>
Whitespace == {" ", "\t", "\n", "\r"}

IndexOf(c, chars) == CHOOSE i \in DOMAIN chars : chars[i] = c
IsIn(c, chars) == \E i \in DOMAIN chars : chars[i] = c

LowerChar(c) == IF IsIn(c, UpperChars) THEN LowerChars[IndexOf(c, UpperChars)] ELSE c

\* str.lower()
Lower(s) == [i \in DOMAIN s |-> LowerChar(s[i])]

\* str.replace(old, "") for a one-character old
RemoveChar(s, old) == SelectSeq(s, LAMBDA c : c # old)

RECURSIVE LStrip(_)
LStrip(s) == IF s # <<>> /\ Head(s) \in Whitespace THEN LStrip(Tail(s)) ELSE s

RECURSIVE RStrip(_)
RStrip(s) ==
    IF s # <<>> /\ s[Len(s)] \in Whitespace THEN RStrip(SubSeq(s, 1, Len(s) - 1)) ELSE s

\* str.strip()
Strip(s) == RStrip(LStrip(s))

RECURSIVE DigitsValue(_)
DigitsValue(s) ==
    IF s = <<>> THEN 0
    ELSE DigitsValue(SubSeq(s, 1, Len(s) - 1)) * 10 + (IndexOf(s[Len(s)], Digits) - 1)

RECURSIVE Pow(_, _)
Pow(b, e) == IF e = 0 THEN 1 ELSE b * Pow(b, e - 1)

\* float(s) on an unsigned decimal literal: digits with at most one point and
\* at least one digit.  None when s is no such literal.
DecimalOf(s) ==
    LET points == {i \in DOMAIN s : s[i] = "."}
        digs == RemoveChar(s, ".")
        p == CHOOSE i \in points : TRUE
    IN  IF Cardinality(points) > 1 \/ digs = <<>>
           \/ \E i \in DOMAIN digs : ~IsIn(digs[i], Digits)
        THEN None
        ELSE IF points = {} THEN Some(Fin(DigitsValue(digs), 1))
        ELSE Some(Fin(DigitsValue(digs), Pow(10, Len(s) - p)))

\* float(s): None stands for ValueError.  The grammar modelled is
\* [sign] (decimal | "inf" | "infinity" | "nan"), the words in any case;
\* exponents and digit-group underscores are not modelled.
FloatOf(s) ==
    LET signed == s # <<>> /\ s[1] \in {"+", "-"}
        sgn == IF signed /\ s[1] = "-" THEN -1 ELSE 1
        body == IF signed THEN Tail(s) ELSE s
        word == Lower(body)
        dec == DecimalOf(body)
    IN  IF word \in {<<"i", "n", "f">>, <<"i", "n", "f", "i", "n", "i", "t", "y">>}
        THEN Some(Inf(sgn))
        ELSE IF word = <<"n", "a", "n">> THEN Some(NaN)
        ELSE IF dec.some THEN Some(Fin(sgn * dec.v.n, dec.v.d))
        ELSE None

(***************************************************************************)
(* parse_float and build_user_profile                                      *)
(***************************************************************************)
\* form.get(field_name) or default
GetOr(f, field_name, default) ==
    IF f[field_name].some /\ f[field_name].v # <<>> THEN f[field_name].v ELSE default


\* parse_float with a blank input read as 0.0 instead of rejected
parse_float_blank_is_zero(f, field_name, label) ==
    LET raw_value == Strip(RemoveChar(GetOr(f, field_name, <<>>), ","))
        parsed == FloatOf(raw_value)
    IN  IF raw_value = <<>>
        THEN [ok |-> TRUE, v |-> FInt(0)]
        ELSE IF parsed.some
        THEN [ok |-> TRUE, v |-> parsed.v]
        ELSE [ok |-> FALSE, msg |-> label \o " must be a number."]

\* parse_float testing for the empty string before it strips
parse_float_strips_late(f, field_name, label) ==
    LET unstripped == RemoveChar(GetOr(f, field_name, <<>>), ",")
        parsed == FloatOf(Strip(unstripped))
    IN  IF unstripped = <<>>
        THEN [ok |-> FALSE, msg |-> label \o " is required."]
        ELSE IF parsed.some
        THEN [ok |-> TRUE, v |-> parsed.v]
        ELSE [ok |-> FALSE, msg |-> label \o " must be a number."]

parse_float(f, field_name, label) ==
    LET raw_value == Strip(RemoveChar(GetOr(f, field_name, <<>>), ","))
        parsed == FloatOf(raw_value)
    IN  IF raw_value = <<>>
        THEN [ok |-> FALSE, msg |-> label \o " is required."]
        ELSE IF parsed.some
        THEN [ok |-> TRUE, v |-> parsed.v]
        ELSE [ok |-> FALSE, msg |-> label \o " must be a number."]

\* The parse_float calls of build_user_profile, in the order they are made.
NumericFields ==
    << <<"current_age", "Current age">>,
       <<"target_age", "Target age">>,
       <<"income", "Annual after-tax income">>,
       <<"total_debt", "Total debt">>,
       <<"avg_debt_rate", "Average debt interest rate">>,
       <<"assets", "Total financial assets">>,
       <<"monthly_savings", "Monthly savings">> >>

Conservative == <<"c", "o", "n", "s", "e", "r", "v", "a", "t", "i", "v", "e">>
Moderate == <<"m", "o", "d", "e", "r", "a", "t", "e">>
Aggressive == <<"a", "g", "g", "r", "e", "s", "s", "i", "v", "e">>
RiskOptions == {Conservative, Moderate, Aggressive}
UserName == <<"U", "s", "e", "r">>


\* the growth rates of moderate and aggressive exchanged
GrowthRate_swapped(risk) ==
    IF risk = Conservative THEN Fin(3, 100)
    ELSE IF risk = Moderate THEN Fin(8, 100)
    ELSE Fin(6, 100)

\* {"conservative": 0.03, "moderate": 0.06, "aggressive": 0.08}[risk]
GrowthRate(risk) ==
    IF risk = Conservative THEN Fin(3, 100)
    ELSE IF risk = Moderate THEN Fin(6, 100)
    ELSE Fin(8, 100)


\* `if income` instead of `if income > 0`
DebtToIncome_truthy(total_debt, income) ==
    IF income # FInt(0) THEN Some(FDiv(total_debt, income)) ELSE None

\* (total_debt / income) if income > 0 else None
DebtToIncome(total_debt, income) ==
    IF FGt(income, FInt(0)) THEN Some(FDiv(total_debt, income)) ELSE None


\* target_age - current_age without the clamp at 0
YearsToGoal_unclamped(target_age, current_age) == FSub(target_age, current_age)

\* max(target_age - current_age, 0)
YearsToGoal(target_age, current_age) == PyMax(FSub(target_age, current_age), FInt(0))


\* the year's savings added after the growth instead of before
ProjectYear_savings_after_growth(value, yearly_savings, growth_rate) ==
    FAdd(FMul(value, FAdd(FInt(1), growth_rate)), yearly_savings)

\* one pass of the loop body
ProjectYear(value, yearly_savings, growth_rate) ==
    FMul(FAdd(value, yearly_savings), FAdd(FInt(1), growth_rate))

\* for _ in range(n): projected_net_worth = ...
RECURSIVE Project(_, _, _, _)
Project(value, yearly_savings, growth_rate, n) ==
    IF n <= 0 THEN value
    ELSE Project(ProjectYear(value, yearly_savings, growth_rate),
                 yearly_savings, growth_rate, n - 1)

Raise(exc, msg, line) == [kind |-> "raise", exc |-> exc, msg |-> msg, line |-> line]

\* Lines 45-77 of build_user_profile, once the seven numbers v are parsed.
ProfileFrom(f, v) ==
    LET name == LET n == Strip(GetOr(f, "name", <<>>)) IN IF n = <<>> THEN UserName ELSE n
        current_age == v[1]
        target_age == v[2]
        income == v[3]
        total_debt == v[4]
        avg_debt_rate == v[5]
        assets == v[6]
        monthly_savings == v[7]
        risk == Lower(GetOr(f, "risk", Moderate))
        years_to_goal == YearsToGoal(target_age, current_age)
        net_worth == FSub(assets, total_debt)
        yearly_savings == FMul(monthly_savings, FInt(12))
        debt_to_income == DebtToIncome(total_debt, income)
        growth_rate == GrowthRate(risk)
    IN  IF risk \notin RiskOptions
        THEN Raise("ValueError", "Please choose a valid risk appetite option.", 47)
        ELSE IF years_to_goal.k = "nan"
        THEN Raise("ValueError", "cannot convert float NaN to integer", 58)
        ELSE IF years_to_goal.k = "inf"
        THEN Raise("OverflowError", "cannot convert float infinity to integer", 58)
        ELSE [kind |-> "return",
              profile |->
                [name |-> name,
                 current_age |-> current_age,
                 target_age |-> target_age,
                 years_to_goal |-> years_to_goal,
                 annual_income |-> income,
                 total_debt |-> total_debt,
                 avg_debt_rate_percent |-> avg_debt_rate,
                 total_assets |-> assets,
                 monthly_savings |-> monthly_savings,
                 yearly_savings |-> yearly_savings,
                 net_worth |-> net_worth,
                 risk_appetite |-> risk,
                 growth_rate_assumed |-> growth_rate,
                 projected_net_worth_at_goal |->
                     Project(net_worth, yearly_savings, growth_rate, Trunc(years_to_goal)),
                 debt_to_income_ratio |-> debt_to_income]]

\* Lines 37-43: the parse_float calls one after the other; the first that
\* raises ends the function.
RECURSIVE ParseFrom(_, _, _)
ParseFrom(f, i, v) ==
    IF i > Len(NumericFields) THEN ProfileFrom(f, v)
    ELSE LET p == parse_float(f, NumericFields[i][1], NumericFields[i][2])
         IN  IF p.ok THEN ParseFrom(f, i + 1, Append(v, p.v))
             ELSE Raise("ValueError", p.msg, 36 + i)

build_user_profile(f) == ParseFrom(f, 1, <<>>)

(***************************************************************************)
(* fetch_market_snapshot                                                   *)
(***************************************************************************)
MARKET_SYMBOLS ==
    << <<"^GSPC", "S&P 500">>,
       <<"VTI", "Total US Stock Market">>,
       <<"BND", "Total US Bond Market">> >>

\* What one yf.download call can do: return a history (its Close column,
\* oldest first; row i is dated day i of the window) or raise.
Data(closes) == [kind |-> "data", closes |-> closes]
Exc(msg) == [kind |-> "exc", msg |-> msg]


\* snapshot rebound to a new dict instead of updated
DictSet_rebinds(d, key, value) == << <<key, value>> >>

\* snapshot[symbol] = record, on a dict kept as its items in insertion order
DictSet(d, key, value) ==
    IF \E i \in DOMAIN d : d[i][1] = key
    THEN [i \in DOMAIN d |-> IF d[i][1] = key THEN <<key, value>> ELSE d[i]]
    ELSE Append(d, <<key, value>>)

\* The body of the loop for one symbol, given what yf.download did.
SymbolRecord(label, outcome) ==
    IF outcome.kind = "exc"
    THEN [label |-> label, error |-> outcome.msg]
    ELSE IF outcome.closes = <<>>
    THEN [label |-> label, error |-> "No data returned for this period."]
    ELSE LET first_close == FInt(outcome.closes[1])
             last_close == FInt(outcome.closes[Len(outcome.closes)])
             pct_change == FMul(FDiv(FSub(last_close, first_close), first_close), FInt(100))
         IN  [label |-> label,
              start_date |-> 1,
              end_date |-> Len(outcome.closes),
              start_price |-> first_close,
              end_price |-> last_close,
              pct_change_90d |-> pct_change]

(***************************************************************************)
(* summarize_for_model                                                     *)
(***************************************************************************)
\* format(x, ".<places>f"): x rounded to `places` decimals, half to even, as
\* the integer count of 10^-places units; "inf" and "nan" print as words.
Fmt(x, places) ==
    IF x.k # "fin" THEN [text |-> x.k, sign |-> x.n]
    ELSE LET scaled == Abs(x.n) * Pow(10, places)
             q == scaled \div x.d
             r == scaled % x.d
             up == 2 * r > x.d \/ (2 * r = x.d /\ q % 2 = 1)
         IN  [text |-> "fin", sign |-> Sign(x.n), units |-> IF up THEN q + 1 ELSE q,
              places |-> places]

Line(text, value) == [text |-> text, value |-> value]

DebtToIncomeLine(p) ==
    IF p.debt_to_income_ratio # None
    THEN Line("- Debt-to-income ratio: {:.2f} (total debt / annual income)",
              Fmt(p.debt_to_income_ratio.v, 2))
    ELSE Line("- Debt-to-income ratio: N/A (income is zero or not provided)", None)

MarketLine(item) ==
    LET symbol == item[1]
        info == item[2]
    IN  IF "error" \in DOMAIN info
        THEN Line("- {label} ({symbol}): error fetching data: {error}",
                  <<info.label, symbol, info.error>>)
        ELSE Line("- {label} ({symbol}): {start} close=${:.2f}, {end} close=${:.2f}, {:.2f}% change over 90 days",
                  <<info.label, symbol, info.start_date, Fmt(info.start_price, 2),
                    info.end_date, Fmt(info.end_price, 2), Fmt(info.pct_change_90d, 2)>>)

summarize_for_model(p, md) ==
    << Line("USER FINANCIAL PROFILE:", None),
       Line("- Name: {}", p.name),
       Line("- Current age: {}", p.current_age),
       Line("- Target retirement age: {}", p.target_age),
       Line("- Years until goal: {:.1f}", Fmt(p.years_to_goal, 1)),
       Line("- Annual after-tax income: ${:,.2f}", Fmt(p.annual_income, 2)),
       Line("- Total debt: ${:,.2f}", Fmt(p.total_debt, 2)),
       Line("- Average debt interest rate: {:.2f}%", Fmt(p.avg_debt_rate_percent, 2)),
       Line("- Total assets: ${:,.2f}", Fmt(p.total_assets, 2)),
       Line("- Monthly savings: ${:,.2f}", Fmt(p.monthly_savings, 2)),
       Line("- Yearly savings: ${:,.2f}", Fmt(p.yearly_savings, 2)),
       Line("- Net worth (assets - debt): ${:,.2f}", Fmt(p.net_worth, 2)),
       DebtToIncomeLine(p),
       Line("- Risk appetite: {}", p.risk_appetite),
       Line("- Simple assumed growth rate based on risk: {:.2f}%",
            Fmt(FMul(p.growth_rate_assumed, FInt(100)), 2)),
       Line("- Rough projected net worth at target age: ${:,.2f}",
            Fmt(p.projected_net_worth_at_goal, 2)),
       Line("", None),
       Line("MARKET SNAPSHOT (last ~90 days):", None) >>
    \o [i \in DOMAIN md |-> MarketLine(md[i])]

(***************************************************************************)
(* Inputs                                                                  *)
(***************************************************************************)
\* The values each form field is drawn from: absent, empty, blank, only a
\* comma, not a number, numbers with and without separators, signs and
\* fractions, and the words float() accepts.
FieldValues ==
    [name |-> {None, Some(<<" ", "A", "l", " ">>)},
     current_age |-> {None, Some(<<"a", "b", "c">>), Some(<<"3", "0">>), Some(<<"3", "1">>), Some(<<"4", "0">>), Some(<<"n", "a", "n">>), Some(<<"i", "n", "f">>)},
     target_age |-> {Some(<<>>), Some(<<"x">>), Some(<<"3", "1">>), Some(<<"3", "2">>), Some(<<"3", "1", ".", "5">>), Some(<<"i", "n", "f">>)},
     income |-> {Some(<<" ">>), Some(<<"n", "/", "a">>), Some(<<"0">>), Some(<<"-", "1">>), Some(<<"5", "0", ",", "0", "0", "0">>), Some(<<"n", "a", "n">>)},
     total_debt |-> {Some(<<",">>), Some(<<"0">>), Some(<<"2", ",", "5", "0", "0">>)},
     avg_debt_rate |-> {None, Some(<<"5">>)},
     assets |-> {Some(<<"t", "e", "n">>), Some(<<"1", "0", "0", "0", "0">>)},
     monthly_savings |-> {Some(<<>>), Some(<<"1", "0", "0", "0">>)},
     risk |-> {None, Some(<<"C", "o", "n", "s", "e", "r", "v", "a", "t", "i", "v", "e">>), Some(<<"A", "G", "G", "R", "E", "S", "S", "I", "V", "E">>), Some(<<"m", "o", "d", "e", "r", "a", "t", "e">>), Some(<<"y", "o", "l", "o">>)}]

\* Property 5 of section 8 of the specification.
BaseForm ==
    [name |-> Some(<<" ", "A", "l", " ">>),
     current_age |-> Some(<<"3", "0">>),
     target_age |-> Some(<<"3", "1">>),
     income |-> Some(<<"5", "0", ",", "0", "0", "0">>),
     total_debt |-> Some(<<"0">>),
     avg_debt_rate |-> Some(<<"5">>),
     assets |-> Some(<<"1", "0", "0", "0", "0">>),
     monthly_savings |-> Some(<<"1", "0", "0", "0">>),
     risk |-> Some(<<"C", "o", "n", "s", "e", "r", "v", "a", "t", "i", "v", "e">>)]

FieldNames == DOMAIN BaseForm

\* The forms build_user_profile is applied to on its own: every combination
\* of the field values (the name, which cannot fail, is fixed).
ProfileForms ==
    [name : {BaseForm.name},
     current_age : FieldValues.current_age,
     target_age : FieldValues.target_age,
     income : FieldValues.income,
     total_debt : FieldValues.total_debt,
     avg_debt_rate : FieldValues.avg_debt_rate,
     assets : FieldValues.assets,
     monthly_savings : FieldValues.monthly_savings,
     risk : FieldValues.risk]

\* The forms posted to index(): BaseForm with at most one field changed.
PostedForms ==
    {BaseForm} \cup
    UNION {{[BaseForm EXCEPT ![x] = v] : v \in FieldValues[x]} : x \in FieldNames}

\* The longest history yf.download returns.
MaxHistLen == 2

\* The closing prices of consecutive trading days.
PricePath == <<100, 125, 110>>

\* The histories yf.download can return: no rows, or the closes of up to
\* MaxHistLen consecutive days.
Histories ==
    {<<>>} \cup
    {SubSeq(PricePath, w[1], w[2]) :
        w \in {v \in (DOMAIN PricePath) \X (DOMAIN PricePath) :
                  v[2] >= v[1] /\ v[2] - v[1] < MaxHistLen}}

\* What a yf.download call can do.
DownloadOutcomes == {Data(c) : c \in Histories} \cup {Exc("Connection timed out")}

\* What client.responses.create can return: a response with the text at
\* output[0].content[0].text, or one without it.
Responses ==
    {[has_text |-> TRUE, text |-> "narrative", repr |-> "Response(narrative)"],
     [has_text |-> FALSE, text |-> "", repr |-> "Response(output=[])"]}

\* What client.responses.create can raise, as str(exc).
ProviderErrors == {"Error code: 429 - insufficient_quota"}

ApiKeys == {None, Some(""), Some("sk-test")}

(***************************************************************************)
(* call_gpt and index                                                      *)
(***************************************************************************)
\* request.form.to_dict(): the fields that were submitted
ToDict(f) == [x \in {y \in DOMAIN f : f[y].some} |-> f[x].v]


\* `if api_key is None` instead of `if not api_key`
KeyMissing_only_none(key) == key = None

\* `if not api_key` of call_gpt
KeyMissing(key) == key = None \/ key.v = ""

NoKeyMessage == "OPENAI_API_KEY is not set. Add it to your .env file before running the app."
GptFlash == "The OpenAI request failed. Check your API key, quota, or logs for details."

\* The keyword arguments of render_template
RenderArgs(fv, p, md, sm, text, err) ==
    [form_values |-> fv, profile |-> p, market_data |-> md, summary |-> sm,
     gpt_text |-> text, gpt_error |-> err]

\* Lines 228-233 for a request that is not yet running
Fresh ==
    /\ pc = "idle"
    /\ profile = None /\ market_data = None /\ summary = None
    /\ gpt_text = None /\ gpt_error = None
    /\ flashes = <<>> /\ snapshot = <<>> /\ fetch_i = 0 /\ downloads = <<>>
    /\ clients = 0 /\ creates = <<>> /\ logged = 0
    /\ uncaught = None /\ rendered = None

\* GET /: nothing is computed, the empty form is rendered.
Get ==
    /\ pc = "idle"
    /\ method' = "GET"
    /\ form' = [x \in FieldNames |-> None]
    /\ form_values' = <<>>
    /\ rendered' = Some(RenderArgs(<<>>, None, None, None, None, None))
    /\ pc' = "done"
    /\ UNCHANGED <<api_key, profile, market_data, summary, gpt_text, gpt_error, flashes,
                   snapshot, fetch_i, downloads, clients, creates, logged, uncaught, result>>

\* POST / with a form build_user_profile accepts: the profile is built and
\* fetch_market_snapshot reaches its first yf.download.
PostValid ==
    /\ pc = "idle"
    /\ \E f \in PostedForms :
         LET r == build_user_profile(f)
         IN  /\ r.kind = "return"
             /\ form' = f
             /\ form_values' = ToDict(f)
             /\ profile' = Some(r.profile)
    /\ method' = "POST"
    /\ snapshot' = <<>>
    /\ fetch_i' = 1
    /\ pc' = "download"
    /\ UNCHANGED <<api_key, market_data, summary, gpt_text, gpt_error, flashes, downloads,
                   clients, creates, logged, uncaught, rendered, result>>

\* POST / with a form for which build_user_profile raises ValueError: the
\* message is flashed and the template rendered.
PostInvalid ==
    /\ pc = "idle"
    /\ \E f \in PostedForms :
         LET r == build_user_profile(f)
         IN  /\ r.kind = "raise" /\ r.exc = "ValueError"
             /\ form' = f
             /\ form_values' = ToDict(f)
             /\ flashes' = Append(flashes, <<r.msg, "error">>)
             /\ rendered' = Some(RenderArgs(ToDict(f), profile, market_data, summary,
                                            gpt_text, gpt_error))
    /\ method' = "POST"
    /\ pc' = "done"
    /\ UNCHANGED <<api_key, profile, market_data, summary, gpt_text, gpt_error, snapshot,
                   fetch_i, downloads, clients, creates, logged, uncaught, result>>

\* POST / with a form for which build_user_profile raises anything else:
\* `except ValueError` does not catch it, the exception leaves index().
PostCrash ==
    /\ pc = "idle"
    /\ \E f \in PostedForms :
         LET r == build_user_profile(f)
         IN  /\ r.kind = "raise" /\ r.exc # "ValueError"
             /\ form' = f
             /\ form_values' = ToDict(f)
             /\ uncaught' = Some(r.exc)
    /\ method' = "POST"
    /\ pc' = "done"
    /\ UNCHANGED <<api_key, profile, market_data, summary, gpt_text, gpt_error, flashes,
                   snapshot, fetch_i, downloads, clients, creates, logged, rendered, result>>

\* One pass of the loop of fetch_market_snapshot that is not the last:
\* yf.download returns or raises, the symbol's record is stored.
DownloadNext ==
    /\ pc = "download"
    /\ fetch_i < Len(MARKET_SYMBOLS)
    /\ \E o \in DownloadOutcomes :
         /\ downloads' = Append(downloads, <<MARKET_SYMBOLS[fetch_i][1], o>>)
         /\ snapshot' = DictSet(snapshot, MARKET_SYMBOLS[fetch_i][1],
                                SymbolRecord(MARKET_SYMBOLS[fetch_i][2], o))
    /\ fetch_i' = fetch_i + 1
    /\ UNCHANGED <<api_key, pc, method, form, form_values, profile, market_data, summary,
                   gpt_text, gpt_error, flashes, clients, creates, logged, uncaught,
                   rendered, result>>

\* call_gpt(sm) up to the request it sends, as index() runs it after the
\* snapshot md is returned: without a key it raises and index() renders,
\* with one the client is built and client.responses.create is called.
StartGpt(md, sm) ==
    IF KeyMissing(api_key)
    THEN /\ gpt_error' = Some(NoKeyMessage)
         /\ flashes' = Append(flashes, <<GptFlash, "error">>)
         /\ logged' = logged + 1
         /\ rendered' = Some(RenderArgs(form_values, profile, Some(md), Some(sm),
                                        gpt_text, Some(NoKeyMessage)))
         /\ pc' = "done"
         /\ UNCHANGED <<clients, creates>>
    ELSE /\ clients' = clients + 1
         /\ creates' = Append(creates, sm)
         /\ pc' = "create"
         /\ UNCHANGED <<gpt_error, flashes, logged, rendered>>

\* The last pass of the loop: the snapshot is returned, the summary is
\* made from it and call_gpt starts.
DownloadLast ==
    /\ pc = "download"
    /\ fetch_i = Len(MARKET_SYMBOLS)
    /\ \E o \in DownloadOutcomes :
         LET md == DictSet(snapshot, MARKET_SYMBOLS[fetch_i][1],
                           SymbolRecord(MARKET_SYMBOLS[fetch_i][2], o))
             sm == summarize_for_model(profile.v, md)
         IN  /\ downloads' = Append(downloads, <<MARKET_SYMBOLS[fetch_i][1], o>>)
             /\ snapshot' = md
             /\ market_data' = Some(md)
             /\ summary' = Some(sm)
             /\ StartGpt(md, sm)
    /\ fetch_i' = fetch_i + 1
    /\ UNCHANGED <<api_key, method, form, form_values, profile, gpt_text, uncaught, result>>

\* client.responses.create returns: the text of the response, or
\* str(response) when the response has no text where expected.
CreateReturns ==
    /\ pc = "create"
    /\ \E resp \in Responses :
         LET text == IF resp.has_text THEN resp.text ELSE resp.repr
         IN  /\ gpt_text' = Some(text)
             /\ rendered' = Some(RenderArgs(form_values, profile, market_data, summary,
                                            Some(text), gpt_error))
    /\ pc' = "done"
    /\ UNCHANGED <<api_key, method, form, form_values, profile, market_data, summary,
                   gpt_error, flashes, snapshot, fetch_i, downloads, clients, creates,
                   logged, uncaught, result>>


\* The except block of index() clearing the results it has
CreateRaises_clears_results ==
    /\ pc = "create"
    /\ \E msg \in ProviderErrors :
         /\ gpt_error' = Some(msg)
         /\ rendered' = Some(RenderArgs(form_values, None, None, None, gpt_text, Some(msg)))
    /\ profile' = None /\ market_data' = None /\ summary' = None
    /\ flashes' = Append(flashes, <<GptFlash, "error">>)
    /\ logged' = logged + 1
    /\ pc' = "done"
    /\ UNCHANGED <<api_key, method, form, form_values, gpt_text, snapshot, fetch_i,
                   downloads, clients, creates, uncaught, result>>

\* client.responses.create raises: lines 245-251.
CreateRaises ==
    /\ pc = "create"
    /\ \E msg \in ProviderErrors :
         /\ gpt_error' = Some(msg)
         /\ rendered' = Some(RenderArgs(form_values, profile, market_data, summary,
                                        gpt_text, Some(msg)))
    /\ flashes' = Append(flashes, <<GptFlash, "error">>)
    /\ logged' = logged + 1
    /\ pc' = "done"
    /\ UNCHANGED <<api_key, method, form, form_values, profile, market_data, summary,
                   gpt_text, snapshot, fetch_i, downloads, clients, creates, uncaught,
                   result>>

\* The response is sent; the next request starts with fresh locals.
NextRequest ==
    /\ pc = "done"
    /\ pc' = "idle"
    /\ profile' = None /\ market_data' = None /\ summary' = None
    /\ gpt_text' = None /\ gpt_error' = None
    /\ flashes' = <<>> /\ snapshot' = <<>> /\ fetch_i' = 0 /\ downloads' = <<>>
    /\ clients' = 0 /\ creates' = <<>> /\ logged' = 0
    /\ uncaught' = None /\ rendered' = None
    /\ UNCHANGED <<api_key, method, form, form_values, result>>

Init ==
    /\ api_key \in ApiKeys
    /\ method = "GET"
    /\ form = [x \in FieldNames |-> None]
    /\ form_values = <<>>
    /\ result = None
    /\ Fresh

Next ==
    \/ Get
    \/ PostValid
    \/ PostInvalid
    \/ PostCrash
    \/ DownloadNext
    \/ DownloadLast
    \/ CreateReturns
    \/ CreateRaises
    \/ NextRequest

Spec == Init /\ [][Next]_vars

(***************************************************************************)
(* build_user_profile and summarize_for_model applied on their own         *)
(***************************************************************************)
\* The snapshots summarize_for_model is applied to.
SampleSnapshots ==
    {[i \in DOMAIN MARKET_SYMBOLS |->
        <<MARKET_SYMBOLS[i][1], SymbolRecord(MARKET_SYMBOLS[i][2], o)>>] :
     o \in {Data(<<>>), Data(PricePath)}}

ProfileInit ==
    /\ api_key = None
    /\ method = "POST"
    /\ form \in ProfileForms
    /\ form_values = <<>>
    /\ result = None
    /\ Fresh

ApplyBuild ==
    /\ result = None
    /\ result' = Some(build_user_profile(form))
    /\ UNCHANGED <<api_key, pc, method, form, form_values, profile, market_data, summary,
                   gpt_text, gpt_error, flashes, snapshot, fetch_i, downloads, clients,
                   creates, logged, uncaught, rendered>>

ApplySummarize ==
    /\ result # None
    /\ result.v.kind = "return"
    /\ summary = None
    /\ \E md \in SampleSnapshots :
         /\ market_data' = Some(md)
         /\ summary' = Some(summarize_for_model(result.v.profile, md))
    /\ UNCHANGED <<api_key, pc, method, form, form_values, profile, gpt_text, gpt_error,
                   flashes, snapshot, fetch_i, downloads, clients, creates, logged,
                   uncaught, rendered, result>>

ProfileNext == ApplyBuild \/ ApplySummarize

SpecProfile == ProfileInit /\ [][ProfileNext]_vars

(***************************************************************************)
(* The form values by what they are, written down from FieldValues and     *)
(* not computed by the parser                                              *)
(***************************************************************************)
\* absent, empty, blank, or nothing but a thousands separator
BlankValues == {None, Some(<<>>), Some(<<" ">>), Some(<<",">>)}

\* text that is no number
NotNumbers == {Some(<<"a", "b", "c">>), Some(<<"x">>), Some(<<"n", "/", "a">>),
               Some(<<"t", "e", "n">>)}

FieldOrder == <<"current_age", "target_age", "income", "total_debt", "avg_debt_rate",
                "assets", "monthly_savings">>

FieldLabel ==
    [current_age |-> "Current age", target_age |-> "Target age",
     income |-> "Annual after-tax income", total_debt |-> "Total debt",
     avg_debt_rate |-> "Average debt interest rate", assets |-> "Total financial assets",
     monthly_savings |-> "Monthly savings"]

InvalidNumbers(f) == {i \in DOMAIN FieldOrder : f[FieldOrder[i]] \in BlankValues \cup NotNumbers}

InvalidRisk(f) == f.risk = Some(<<"y", "o", "l", "o">>)

FailsValidation(f) == InvalidNumbers(f) # {} \/ InvalidRisk(f)

RiskMessage == "Please choose a valid risk appetite option."

\* C1: a POST whose form fails validation makes no yf.download call, builds
\* no client and sends no model request, and the template is rendered with
\* profile, market_data, summary and gpt_text all None.
C1_NoExternalCallOnInvalidForm ==
    (method = "POST" /\ pc # "idle" /\ FailsValidation(form)) =>
        /\ pc = "done"
        /\ downloads = <<>> /\ clients = 0 /\ creates = <<>>
        /\ rendered # None
        /\ rendered.v.profile = None /\ rendered.v.market_data = None
        /\ rendered.v.summary = None /\ rendered.v.gpt_text = None

\* The specification's example: income left blank.
C1_Witness ==
    /\ pc = "done" /\ method = "POST"
    /\ form.income = Some(<<" ">>)
    /\ flashes = << <<"Annual after-tax income is required.", "error">> >>
    /\ rendered # None

\* C2: build_user_profile returns a profile or raises ValueError, so no
\* failure of a POST escapes index(): every request that ends has rendered
\* the template.
C2_EveryFailureRendered ==
    pc = "done" =>
        /\ uncaught = None
        /\ rendered # None

\* C3: whatever each yf.download does, the snapshot returned holds one
\* record per symbol in the order ^GSPC, VTI, BND, each symbol was fetched
\* once, a failing or empty symbol has an error record and every other
\* symbol the record of its own history; the function always returns.
C3_IsErrorRecord(rec, label, msg) ==
    /\ DOMAIN rec = {"label", "error"}
    /\ rec.label = label
    /\ rec.error = msg

C3_IsPriceRecord(rec, label, closes) ==
    /\ DOMAIN rec = {"label", "start_date", "end_date", "start_price", "end_price",
                     "pct_change_90d"}
    /\ rec.label = label
    /\ rec.start_date = 1 /\ rec.end_date = Len(closes)
    /\ rec.start_price = FInt(closes[1])
    /\ rec.end_price = FInt(closes[Len(closes)])
    /\ rec.pct_change_90d.k = "fin"
    /\ rec.pct_change_90d.n * closes[1]
          = (closes[Len(closes)] - closes[1]) * 100 * rec.pct_change_90d.d

C3_Symbols == <<"^GSPC", "VTI", "BND">>
C3_Labels == <<"S&P 500", "Total US Stock Market", "Total US Bond Market">>

C3_RecordOf(rec, label, o) ==
    IF o.kind = "exc" THEN C3_IsErrorRecord(rec, label, o.msg)
    ELSE IF o.closes = <<>>
    THEN C3_IsErrorRecord(rec, label, "No data returned for this period.")
    ELSE C3_IsPriceRecord(rec, label, o.closes)

C3_SnapshotCompleteAndIsolated ==
    /\ pc = "download" =>
          /\ fetch_i \in 1..3 /\ Len(downloads) = fetch_i - 1 /\ uncaught = None
    /\ Len(downloads) <= 3
    /\ \A i \in DOMAIN downloads : downloads[i][1] = C3_Symbols[i]
    /\ Len(downloads) = 3 <=> market_data # None
    /\ market_data # None =>
          /\ Len(market_data.v) = 3
          /\ \A i \in 1..3 :
                /\ market_data.v[i][1] = C3_Symbols[i]
                /\ C3_RecordOf(market_data.v[i][2], C3_Labels[i], downloads[i][2])

\* One symbol raises, one returns no rows, one returns prices.
C3_Witness ==
    /\ market_data # None
    /\ downloads[1][2].kind = "exc"
    /\ downloads[2][2] = Data(<<>>)
    /\ downloads[3][2] = Data(<<125, 110>>)
    /\ market_data.v[3][2].pct_change_90d = FInt(-12)

\* C4: with OPENAI_API_KEY absent or empty no client is built and no
\* request is sent; call_gpt ends in the configuration error.
C4_NoKeyNoOutboundCall ==
    api_key \in {None, Some("")} =>
        /\ clients = 0 /\ creates = <<>> /\ pc # "create"
        /\ market_data # None =>
              /\ pc = "done"
              /\ gpt_text = None
              /\ gpt_error = Some(NoKeyMessage)

C4_Witness ==
    /\ api_key = Some("")
    /\ pc = "done" /\ market_data # None
    /\ gpt_error = Some(NoKeyMessage) /\ clients = 0 /\ creates = <<>>

\* C5: when call_gpt fails on a valid form, the template is rendered with
\* the profile, the snapshot and the summary that were computed, gpt_text
\* None, gpt_error the message of the failure, and the generic notice
\* flashed.
C5_NarrativeFailureKeepsResults ==
    (pc = "done" /\ Len(downloads) = 3 /\ gpt_text = None) =>
        /\ profile # None
        /\ profile = Some(build_user_profile(form).profile)
        /\ market_data = Some(snapshot) /\ Len(snapshot) = 3
        /\ summary = Some(summarize_for_model(profile.v, snapshot))
        /\ rendered # None
        /\ rendered.v.profile = profile
        /\ rendered.v.market_data = market_data
        /\ rendered.v.summary = summary
        /\ rendered.v.gpt_text = None
        /\ rendered.v.gpt_error = gpt_error
        /\ gpt_error \in {Some(NoKeyMessage)} \cup {Some(m) : m \in ProviderErrors}
        /\ (gpt_error = Some(NoKeyMessage)) <=> (api_key \in {None, Some("")})
        /\ flashes = << <<GptFlash, "error">> >>
        /\ logged = 1

\* The provider raises after the request was sent.
C5_Witness ==
    /\ pc = "done" /\ clients = 1 /\ Len(creates) = 1
    /\ gpt_error = Some("Error code: 429 - insufficient_quota")
    /\ rendered # None /\ rendered.v.profile # None /\ rendered.v.summary # None

\* C6: with several fields invalid at once only the first invalid field in
\* the order current_age, target_age, income, total_debt, avg_debt_rate,
\* assets, monthly_savings, then risk, is reported; a blank number is
\* "<label> is required." and other text "<label> must be a number.".
C6_Min(S) == CHOOSE i \in S : \A j \in S : i <= j

C6_FirstInvalidFieldReported ==
    result # None =>
        LET bad == InvalidNumbers(form)
            first == FieldOrder[C6_Min(bad)]
        IN  /\ bad # {} =>
                  /\ result.v.kind = "raise" /\ result.v.exc = "ValueError"
                  /\ result.v.msg = FieldLabel[first] \o
                        (IF form[first] \in BlankValues THEN " is required."
                                                        ELSE " must be a number.")
            /\ (bad = {} /\ InvalidRisk(form)) =>
                  /\ result.v.kind = "raise" /\ result.v.exc = "ValueError"
                  /\ result.v.msg = RiskMessage
            /\ (bad = {} /\ ~InvalidRisk(form) /\ result.v.kind = "raise") =>
                  result.v.line = 58

\* target_age, income, monthly_savings and risk are all invalid.
C6_Witness ==
    /\ result # None
    /\ form.current_age = Some(<<"3", "0">>)
    /\ form.target_age = Some(<<"x">>)
    /\ form.income = Some(<<" ">>)
    /\ form.monthly_savings = Some(<<>>)
    /\ InvalidRisk(form)
    /\ result.v.msg = "Target age must be a number."

\* C7: risk is matched without regard to case and is moderate when absent;
\* a returned profile has growth rate 0.03, 0.06 or 0.08 for conservative,
\* moderate or aggressive; any other risk is rejected at line 47, before
\* the growth-rate mapping and the projection loop.
C7_RiskOf(r) ==
    IF r = None \/ r = Some(<<"m", "o", "d", "e", "r", "a", "t", "e">>) THEN "moderate"
    ELSE IF r = Some(<<"C", "o", "n", "s", "e", "r", "v", "a", "t", "i", "v", "e">>)
    THEN "conservative"
    ELSE IF r = Some(<<"A", "G", "G", "R", "E", "S", "S", "I", "V", "E">>) THEN "aggressive"
    ELSE "other"

C7_Spelled ==
    [conservative |-> <<"c", "o", "n", "s", "e", "r", "v", "a", "t", "i", "v", "e">>,
     moderate |-> <<"m", "o", "d", "e", "r", "a", "t", "e">>,
     aggressive |-> <<"a", "g", "g", "r", "e", "s", "s", "i", "v", "e">>]

C7_Rate == [conservative |-> 3, moderate |-> 6, aggressive |-> 8]

C7_GrowthRateFollowsRisk ==
    (result # None /\ InvalidNumbers(form) = {}) =>
        LET r == C7_RiskOf(form.risk)
        IN  /\ r = "other" =>
                  result.v = [kind |-> "raise", exc |-> "ValueError", msg |-> RiskMessage,
                              line |-> 47]
            /\ (r # "other" /\ result.v.kind = "return") =>
                  /\ result.v.profile.risk_appetite = C7_Spelled[r]
                  /\ result.v.profile.growth_rate_assumed.k = "fin"
                  /\ result.v.profile.growth_rate_assumed.n * 100
                        = C7_Rate[r] * result.v.profile.growth_rate_assumed.d
            /\ (r # "other" /\ result.v.kind = "raise") => result.v.line = 58

\* An upper-case risk on a form that is otherwise valid.
C7_Witness ==
    /\ result # None /\ result.v.kind = "return"
    /\ form.risk = Some(<<"A", "G", "G", "R", "E", "S", "S", "I", "V", "E">>)
    /\ result.v.profile.growth_rate_assumed = Fin(2, 25)

\* The risk is rejected although int(years_to_goal) would raise.
C7_WitnessRejected ==
    /\ result # None /\ result.v.kind = "raise" /\ result.v.msg = RiskMessage
    /\ form.target_age = Some(<<"i", "n", "f">>)

\* C8: projected_net_worth_at_goal is net_worth (= assets - debt) after
\* trunc(years_to_goal) updates value <- (value + yearly_savings) * (1 + rate)
\* with yearly_savings = monthly_savings * 12: net_worth itself when
\* years_to_goal < 1, and 22660 for the example of the specification.
RECURSIVE C8_FPow(_, _)
C8_FPow(x, n) == IF n = 0 THEN FInt(1) ELSE FMul(x, C8_FPow(x, n - 1))

\* nw * q^n + ys * q * (q^n - 1) / (q - 1), the closed form of n updates
C8_Closed(nw, ys, g, n) ==
    LET q == FAdd(FInt(1), g)
    IN  FAdd(FMul(nw, C8_FPow(q, n)),
             FDiv(FMul(FMul(ys, q), FSub(C8_FPow(q, n), FInt(1))), g))

C8_ProjectionIsTruncatedCompounding ==
    (result # None /\ result.v.kind = "return") =>
        LET p == result.v.profile
            n == p.years_to_goal.n \div p.years_to_goal.d
        IN  /\ p.net_worth = FSub(p.total_assets, p.total_debt)
            /\ p.yearly_savings = FMul(p.monthly_savings, FInt(12))
            /\ p.projected_net_worth_at_goal
                  = C8_Closed(p.net_worth, p.yearly_savings, p.growth_rate_assumed, n)
            /\ n = 0 => p.projected_net_worth_at_goal = p.net_worth
            /\ n = 1 => p.projected_net_worth_at_goal
                           = FMul(FAdd(p.net_worth, p.yearly_savings),
                                  FAdd(FInt(1), p.growth_rate_assumed))
            /\ (/\ form.current_age = Some(<<"3", "0">>)
                /\ form.target_age = Some(<<"3", "1">>)
                /\ form.assets = Some(<<"1", "0", "0", "0", "0">>)
                /\ form.total_debt = Some(<<"0">>)
                /\ form.monthly_savings = Some(<<"1", "0", "0", "0">>)
                /\ form.risk = Some(<<"C", "o", "n", "s", "e", "r", "v", "a", "t", "i", "v", "e">>))
               => p.projected_net_worth_at_goal = FInt(22660)

\* A year and a half to the goal: one update, not two.
C8_Witness ==
    /\ result # None /\ result.v.kind = "return"
    /\ form.current_age = Some(<<"3", "0">>)
    /\ form.target_age = Some(<<"3", "1", ".", "5">>)
    /\ form.total_debt = Some(<<"0">>)
    /\ form.risk = Some(<<"C", "o", "n", "s", "e", "r", "v", "a", "t", "i", "v", "e">>)
    /\ result.v.profile.years_to_goal = Fin(3, 2)
    /\ result.v.profile.projected_net_worth_at_goal = FInt(22660)

\* C9: a returned profile has years_to_goal = max(target_age - current_age, 0),
\* never negative.
C9_YearsToGoalClamped ==
    (result # None /\ result.v.kind = "return") =>
        LET p == result.v.profile
            diff == FSub(p.target_age, p.current_age)
        IN  /\ p.years_to_goal.k = "fin"
            /\ p.years_to_goal.n >= 0
            /\ p.years_to_goal = IF diff.k = "fin" /\ diff.n > 0 THEN diff ELSE FInt(0)

\* The target age lies before the current age.
C9_Witness ==
    /\ result # None /\ result.v.kind = "return"
    /\ form.current_age = Some(<<"4", "0">>)
    /\ form.target_age = Some(<<"3", "1">>)
    /\ result.v.profile.years_to_goal = FInt(0)

\* C10 as claimed: debt_to_income_ratio is None when annual_income <= 0 and
\* total_debt / annual_income otherwise.
C10_Leq0(x) == (x.k = "fin" /\ x.n <= 0) \/ (x.k = "inf" /\ x.n = -1)

C10_Ratio(debt, income) ==
    IF debt.k = "fin" /\ income.k = "fin"
    THEN Fin(debt.n * income.d, debt.d * income.n)
    ELSE FDiv(debt, income)

C10_Original ==
    (result # None /\ result.v.kind = "return") =>
        LET p == result.v.profile
        IN  IF C10_Leq0(p.annual_income)
            THEN p.debt_to_income_ratio = None
            ELSE p.debt_to_income_ratio = Some(C10_Ratio(p.total_debt, p.annual_income))

\* C10 as amended: debt_to_income_ratio is total_debt / annual_income when
\* annual_income > 0 and None in every other case (annual_income <= 0 or
\* NaN); summarize_for_model writes the N/A line exactly when it is None and
\* the ratio to two decimals otherwise.
C10_Gt0(x) == (x.k = "fin" /\ x.n > 0) \/ (x.k = "inf" /\ x.n = 1)

C10_RatioDefinedIffIncomePositive ==
    (result # None /\ result.v.kind = "return") =>
        LET p == result.v.profile
            na == "- Debt-to-income ratio: N/A (income is zero or not provided)"
            ratio == "- Debt-to-income ratio: {:.2f} (total debt / annual income)"
        IN  /\ C10_Gt0(p.annual_income) =>
                  p.debt_to_income_ratio = Some(C10_Ratio(p.total_debt, p.annual_income))
            /\ ~C10_Gt0(p.annual_income) => p.debt_to_income_ratio = None
            /\ summary # None =>
                  /\ Cardinality({i \in DOMAIN summary.v :
                                     summary.v[i].text \in {na, ratio}}) = 1
                  /\ (\E i \in DOMAIN summary.v : summary.v[i].text = na)
                        <=> ~C10_Gt0(p.annual_income)
                  /\ \A i \in DOMAIN summary.v :
                        summary.v[i].text = ratio =>
                            /\ summary.v[i].value.text = "fin"
                            /\ summary.v[i].value.places = 2
                            /\ LET r == C10_Ratio(p.total_debt, p.annual_income)
                                   u == summary.v[i].value.units
                               IN  /\ 2 * Abs(u * r.d - 100 * r.n) <= r.d
                                   /\ summary.v[i].value.sign = Sign(r.n)

\* A positive income with a debt: the ratio 2500 / 50000 = 0.05.
C10_Witness ==
    /\ summary # None
    /\ form.income = Some(<<"5", "0", ",", "0", "0", "0">>)
    /\ form.total_debt = Some(<<"2", ",", "5", "0", "0">>)
    /\ result.v.profile.debt_to_income_ratio = Some(Fin(1, 20))
    /\ \E i \in DOMAIN summary.v :
          /\ summary.v[i].text = "- Debt-to-income ratio: {:.2f} (total debt / annual income)"
          /\ summary.v[i].value.units = 5

====
